---- MODULE Spec2Model ----
(***************************************************************************)
(* The Ludo rules engine of src/src/Ludo.ts as a state machine.            *)
(*                                                                         *)
(* The fields of the Ludo object are the variables.  Every method is an    *)
(* operator from the object (a record of its fields) to the object after   *)
(* the call, written branch by branch from the method's code; an action    *)
(* applies one public method to the current object.  Array indices are     *)
(* those of the code (token indices 0..3, path indices 0..56).             *)
(***************************************************************************)
EXTENDS Integers, Sequences, FiniteSets, TLC

VARIABLES
    players,                  \* Ludo.players: the active colors, in turn order
    tokenPositions,           \* Ludo.tokenPositions: color -> (0..3 -> position)
    currentPiece,             \* Ludo.currentPiece
    ranking,                  \* Ludo.ranking
    currentDiceRoll,          \* Ludo.currentDiceRoll (Null when no roll is pending)
    lastDiceRoll,             \* Ludo.lastDiceRoll
    validTokenIndices,        \* Ludo.validTokenIndices
    currentConsecutiveSixes,  \* Ludo.currentConsecutiveSixes
    currentBoardStatus,       \* Ludo.currentBoardStatus
    gameState,                \* Ludo.gameState
    last,                     \* the last call: its name, argument, locals and result
    replay,                   \* position in the recorded game (0: departed from it)
    free                      \* calls still allowed off the recorded game

vars == <<players, tokenPositions, currentPiece, ranking, currentDiceRoll,
          lastDiceRoll, validTokenIndices, currentConsecutiveSixes,
          currentBoardStatus, gameState, last, replay, free>>

-----------------------------------------------------------------------------
(* Types and constants of the program                                      *)

Color == {"red", "green", "yellow", "blue"}

TokenIndex == 0..3

\* `null` of `number | null`: a value outside the dice range 1..6
Null == 0

TRACK_LENGTH == 57

\* safeZones with 14 typed for 13
safeZones_Fourteen == <<0, 8, 14, 21, 26, 34, 39, 47>>

safeZones == <<0, 8, 13, 21, 26, 34, 39, 47>>

Dice == 1..6

ROLL == "playerHasToRollADice"

SELECT == "playerHasToSelectAPosition"

FINISHED == "gameFinished"

\* Array.prototype.includes
includes(seq, x) == \E k \in 1..Len(seq) : seq[k] = x

\* Array.prototype.indexOf, 0-based (-1 when absent)
indexOf(seq, x) ==
    IF includes(seq, x)
    THEN (CHOOSE k \in 1..Len(seq) : seq[k] = x /\ \A j \in 1..(k - 1) : seq[j] # x) - 1
    ELSE -1

\* the constructor's choice of colors
playersFor(numberOfPlayers) ==
    IF numberOfPlayers = 2 THEN <<"blue", "green">>
    ELSE IF numberOfPlayers = 3 THEN <<"blue", "red", "green">>
    ELSE <<"blue", "red", "green", "yellow">>

-----------------------------------------------------------------------------
(* Board geometry: reset() builds redPath and rotates it                   *)

\* the values of x in `for (let x = a; x <= b; x++)`
up(a, b) == [k \in 1..(b - a + 1) |-> a + k - 1]

\* the values of x in `for (let x = a; x >= b; x--)`
down(a, b) == [k \in 1..(a - b + 1) |-> a - k + 1]

\* the cells pushed by a loop over columns cs: redPath.push([r, c])
rowCells(r, cs) == [k \in 1..Len(cs) |-> <<r, cs[k]>>]

\* the cells pushed by a loop over rows rs: redPath.push([r, c])
colCells(c, rs) == [k \in 1..Len(rs) |-> <<rs[k], c>>]

redPath ==
    rowCells(6, up(1, 5)) \o
    colCells(6, down(5, 0)) \o
    rowCells(0, up(7, 8)) \o
    colCells(8, up(1, 5)) \o
    rowCells(6, up(9, 14)) \o
    colCells(14, up(7, 8)) \o
    rowCells(8, down(13, 9)) \o
    colCells(8, up(9, 14)) \o
    rowCells(14, down(7, 6)) \o
    colCells(6, down(13, 9)) \o
    rowCells(8, down(5, 0)) \o
    rowCells(7, up(0, 6))

\* rotateCoord about (8, 8): center is 8
rotateCoord_CenterEight(coord, angle) ==
    LET r == coord[1]
        c == coord[2]
        center == 8
    IN  IF angle = 90 THEN <<center + (c - center), center - (r - center)>>
        ELSE IF angle = 180 THEN <<14 - r, 14 - c>>
        ELSE <<center - (c - center), center + (r - center)>>

rotateCoord(coord, angle) ==
    LET r == coord[1]
        c == coord[2]
        center == 7
    IN  IF angle = 90 THEN <<center + (c - center), center - (r - center)>>
        ELSE IF angle = 180 THEN <<14 - r, 14 - c>>
        ELSE <<center - (c - center), center + (r - center)>>

\* colorPaths[color] is a sequence; the code's index i is element i + 1
colorPaths ==
    [color \in Color |->
        IF color = "red" THEN redPath
        ELSE IF color = "green" THEN [k \in 1..Len(redPath) |-> rotateCoord(redPath[k], 90)]
        ELSE IF color = "yellow" THEN [k \in 1..Len(redPath) |-> rotateCoord(redPath[k], 180)]
        ELSE [k \in 1..Len(redPath) |-> rotateCoord(redPath[k], 270)]]

\* this.colorPaths[color][index]
pathCell(color, index) == colorPaths[color][index + 1]

\* reset()'s marking of the board: board[r][c].isSafeZone of cell <<r, c>>,
\* set for the safeZones indices and index 0 of every active color's path
isSafeZone(activeColors, cell) ==
    \E k \in 1..Len(activeColors) : \E index \in 0..(Len(redPath) - 1) :
        /\ pathCell(activeColors[k], index) = cell
        /\ (includes(safeZones, index) \/ index = 0)

-----------------------------------------------------------------------------
(* Status texts: the template of the message and its interpolated values   *)

Status(kind, who, n) == [kind |-> kind, who |-> who, n |-> n]

-----------------------------------------------------------------------------
(* The object and its private methods                                      *)

\* the Ludo object assembled from its fields
Self ==
    [players |-> players,
     tokenPositions |-> tokenPositions,
     currentPiece |-> currentPiece,
     ranking |-> ranking,
     currentDiceRoll |-> currentDiceRoll,
     lastDiceRoll |-> lastDiceRoll,
     validTokenIndices |-> validTokenIndices,
     currentConsecutiveSixes |-> currentConsecutiveSixes,
     currentBoardStatus |-> currentBoardStatus,
     gameState |-> gameState]

\* resetTurnState without `this.currentDiceRoll = null`
resetTurnState_KeepsRoll(g, clearLastDiceRoll) ==
    [g EXCEPT !.validTokenIndices = <<>>,
              !.lastDiceRoll = IF clearLastDiceRoll THEN Null ELSE @]

\* resetTurnState ignoring its flag: lastDiceRoll is always cleared
resetTurnState_AlwaysClearsLast(g, clearLastDiceRoll) ==
    [g EXCEPT !.currentDiceRoll = Null,
              !.validTokenIndices = <<>>,
              !.lastDiceRoll = Null]

\* private resetTurnState(clearLastDiceRoll)
resetTurnState(g, clearLastDiceRoll) ==
    [g EXCEPT !.currentDiceRoll = Null,
              !.validTokenIndices = <<>>,
              !.lastDiceRoll = IF clearLastDiceRoll THEN Null ELSE @]

\* nextTurn stepping backwards through players
nextTurn_Backwards(g) ==
    IF Len(g.ranking) >= Len(g.players)
    THEN [g EXCEPT !.gameState = FINISHED,
                   !.currentBoardStatus = Status("GameOver", "", 0)]
    ELSE LET idx == indexOf(g.players, g.currentPiece)
             next == g.players[((idx - 1 + Len(g.players)) % Len(g.players)) + 1]
         IN  [g EXCEPT !.currentPiece = next,
                       !.currentConsecutiveSixes = 0,
                       !.gameState = ROLL,
                       !.currentBoardStatus = Status("NowTurn", next, 0)]

\* nextTurn without `this.currentConsecutiveSixes = 0`
nextTurn_KeepsSixes(g) ==
    IF Len(g.ranking) >= Len(g.players)
    THEN [g EXCEPT !.gameState = FINISHED,
                   !.currentBoardStatus = Status("GameOver", "", 0)]
    ELSE LET idx == indexOf(g.players, g.currentPiece)
             next == g.players[((idx + 1) % Len(g.players)) + 1]
         IN  [g EXCEPT !.currentPiece = next,
                       !.gameState = ROLL,
                       !.currentBoardStatus = Status("NowTurn", next, 0)]

\* nextTurn ending the game when all colors but one are ranked:
\* `ranking.length >= players.length - 1`
nextTurn_AllButOne(g) ==
    IF Len(g.ranking) >= Len(g.players) - 1
    THEN [g EXCEPT !.gameState = FINISHED,
                   !.currentBoardStatus = Status("GameOver", "", 0)]
    ELSE LET idx == indexOf(g.players, g.currentPiece)
             next == g.players[((idx + 1) % Len(g.players)) + 1]
         IN  [g EXCEPT !.currentPiece = next,
                       !.currentConsecutiveSixes = 0,
                       !.gameState = ROLL,
                       !.currentBoardStatus = Status("NowTurn", next, 0)]

\* nextTurn with a strict test: `ranking.length > players.length`
nextTurn_StrictlyMore(g) ==
    IF Len(g.ranking) > Len(g.players)
    THEN [g EXCEPT !.gameState = FINISHED,
                   !.currentBoardStatus = Status("GameOver", "", 0)]
    ELSE LET idx == indexOf(g.players, g.currentPiece)
             next == g.players[((idx + 1) % Len(g.players)) + 1]
         IN  [g EXCEPT !.currentPiece = next,
                       !.currentConsecutiveSixes = 0,
                       !.gameState = ROLL,
                       !.currentBoardStatus = Status("NowTurn", next, 0)]

\* nextTurn passing over the colors already in ranking
nextTurn_SkipsRanked(g) ==
    IF Len(g.ranking) >= Len(g.players)
    THEN [g EXCEPT !.gameState = FINISHED,
                   !.currentBoardStatus = Status("GameOver", "", 0)]
    ELSE LET idx == indexOf(g.players, g.currentPiece)
             at(k) == g.players[((idx + k) % Len(g.players)) + 1]
             step == CHOOSE k \in 1..Len(g.players) :
                        /\ ~includes(g.ranking, at(k))
                        /\ \A j \in 1..(k - 1) : includes(g.ranking, at(j))
             next == at(step)
         IN  [g EXCEPT !.currentPiece = next,
                       !.currentConsecutiveSixes = 0,
                       !.gameState = ROLL,
                       !.currentBoardStatus = Status("NowTurn", next, 0)]

\* private nextTurn()
nextTurn(g) ==
    IF Len(g.ranking) >= Len(g.players)
    THEN [g EXCEPT !.gameState = FINISHED,
                   !.currentBoardStatus = Status("GameOver", "", 0)]
    ELSE LET idx == indexOf(g.players, g.currentPiece)
             next == g.players[((idx + 1) % Len(g.players)) + 1]
         IN  [g EXCEPT !.currentPiece = next,
                       !.currentConsecutiveSixes = 0,
                       !.gameState = ROLL,
                       !.currentBoardStatus = Status("NowTurn", next, 0)]

\* canMove letting a token leave home on any roll
canMove_HomeOnAnyRoll(pos, roll) ==
    IF pos = 56 THEN FALSE
    ELSE IF pos = -1 THEN TRUE
    ELSE pos + roll <= 56

\* canMove with the bound off by one: pos + roll may be 57
canMove_OffByOne(pos, roll) ==
    IF pos = 56 THEN FALSE
    ELSE IF pos = -1 THEN roll = 6
    ELSE pos + roll <= 57

\* the test of getValidMoves' loop body for token i
canMove(pos, roll) ==
    IF pos = 56 THEN FALSE
    ELSE IF pos = -1 THEN roll = 6
    ELSE pos + roll <= 56

\* private getValidMoves(color, roll): the indices pushed, in loop order
getValidMoves(g, color, roll) ==
    SelectSeq(<<0, 1, 2, 3>>, LAMBDA i : canMove(g.tokenPositions[color][i], roll))

\* colorPaths[color][index] is undefined: destructuring it throws a TypeError
noCell(index) == index < 0 \/ index >= Len(redPath)

\* the place of token i of color in handleCollisions' loops over players and i
loopOrder(g, color, i) == 4 * indexOf(g.players, color) + i

\* visited without `if (color === movingColor) continue`
visited_OwnColorToo(g, color, i, movingColor) ==
    /\ includes(g.players, color)
    /\ ~(g.tokenPositions[color][i] < 0 \/ g.tokenPositions[color][i] = 56)

\* visited with the inner loop starting at token 1: `for (let i = 1; ...)`
visited_FromTokenOne(g, color, i, movingColor) ==
    /\ includes(g.players, color)
    /\ color # movingColor
    /\ i >= 1
    /\ ~(g.tokenPositions[color][i] < 0 \/ g.tokenPositions[color][i] = 56)

\* handleCollisions' loops read the path cell of token i of color: an active
\* color other than the mover's, a token neither home nor finished
visited(g, color, i, movingColor) ==
    /\ includes(g.players, color)
    /\ color # movingColor
    /\ ~(g.tokenPositions[color][i] < 0 \/ g.tokenPositions[color][i] = 56)

\* isCaptured taking an equal track index for the same cell as well
isCaptured_OrSameIndex(g, color, i, newPos, movingColor) ==
    /\ visited(g, color, i, movingColor)
    /\ ~noCell(g.tokenPositions[color][i])
    /\ \/ pathCell(color, g.tokenPositions[color][i]) = pathCell(movingColor, newPos)
       \/ g.tokenPositions[color][i] = newPos

\* isCaptured comparing track indices instead of board coordinates
isCaptured_ByIndex(g, color, i, newPos, movingColor) ==
    /\ visited(g, color, i, movingColor)
    /\ g.tokenPositions[color][i] = newPos

\* the test of handleCollisions' inner loop: token i of color is sent home
isCaptured(g, color, i, newPos, movingColor) ==
    /\ visited(g, color, i, movingColor)
    /\ ~noCell(g.tokenPositions[color][i])
    /\ pathCell(color, g.tokenPositions[color][i]) = pathCell(movingColor, newPos)

\* handleCollisions resetting the captured color's whole array instead of
\* the one token: tokenPositions[color] = [-1, -1, -1, -1]
handleCollisions_WholeColor(g, newPos, movingColor) ==
    LET hit == {ci \in Color \X TokenIndex :
                    isCaptured(g, ci[1], ci[2], newPos, movingColor)}
    IN  [self |-> [g EXCEPT !.tokenPositions =
                      [color \in Color |-> [i \in TokenIndex |->
                          IF \E j \in TokenIndex : <<color, j>> \in hit
                          THEN -1 ELSE @[color][i]]]],
         captures |-> Cardinality(hit),
         threw |-> FALSE]

\* handleCollisions putting a captured token on its start cell instead of
\* its home yard: `this.tokenPositions[color][i] = 0`
handleCollisions_ToStart(g, newPos, movingColor) ==
    LET hit == {ci \in Color \X TokenIndex :
                    isCaptured(g, ci[1], ci[2], newPos, movingColor)}
    IN  [self |-> [g EXCEPT !.tokenPositions =
                      [color \in Color |-> [i \in TokenIndex |->
                          IF <<color, i>> \in hit THEN 0 ELSE @[color][i]]]],
         captures |-> Cardinality(hit),
         threw |-> FALSE]

\* private handleCollisions(newPos, movingColor): the object after the loops,
\* the count returned, and whether a TypeError ended the call (then the loops
\* stopped at the first token whose path cell is undefined)
handleCollisions(g, newPos, movingColor) ==
    IF noCell(newPos)
    THEN [self |-> g, captures |-> 0, threw |-> TRUE]
    ELSE
      LET bad == {ci \in Color \X TokenIndex :
                    /\ visited(g, ci[1], ci[2], movingColor)
                    /\ noCell(g.tokenPositions[ci[1]][ci[2]])}
          before(ci) == \A b \in bad : loopOrder(g, ci[1], ci[2]) < loopOrder(g, b[1], b[2])
          hit == {ci \in Color \X TokenIndex :
                    /\ isCaptured(g, ci[1], ci[2], newPos, movingColor)
                    /\ before(ci)}
      IN  [self |-> [g EXCEPT !.tokenPositions =
                        [color \in Color |-> [i \in TokenIndex |->
                            IF <<color, i>> \in hit THEN -1 ELSE @[color][i]]]],
           captures |-> Cardinality(hit),
           threw |-> bad # {}]

-----------------------------------------------------------------------------
(* The public methods                                                      *)

\* reset without `this.currentConsecutiveSixes = 0`
reset_KeepsSixes(g, randomIndex) ==
    [g EXCEPT !.tokenPositions = [color \in Color |-> [i \in TokenIndex |-> -1]],
              !.ranking = <<>>,
              !.currentDiceRoll = Null,
              !.lastDiceRoll = Null,
              !.validTokenIndices = <<>>,
              !.currentBoardStatus = Status("", "", 0),
              !.gameState = ROLL,
              !.currentPiece = g.players[randomIndex + 1]]

\* reset drawing the starting color from all four colors instead of
\* this.players
reset_StartsAnyColor(g, randomIndex) ==
    [g EXCEPT !.tokenPositions = [color \in Color |-> [i \in TokenIndex |-> -1]],
              !.ranking = <<>>,
              !.currentDiceRoll = Null,
              !.lastDiceRoll = Null,
              !.validTokenIndices = <<>>,
              !.currentConsecutiveSixes = 0,
              !.currentBoardStatus = Status("", "", 0),
              !.gameState = ROLL,
              !.currentPiece = <<"red", "green", "yellow", "blue">>[randomIndex + 1]]

\* reset(): randomIndex is the value of random(0, players.length - 1)
reset(g, randomIndex) ==
    [g EXCEPT !.tokenPositions = [color \in Color |-> [i \in TokenIndex |-> -1]],
              !.ranking = <<>>,
              !.currentDiceRoll = Null,
              !.lastDiceRoll = Null,
              !.validTokenIndices = <<>>,
              !.currentConsecutiveSixes = 0,
              !.currentBoardStatus = Status("", "", 0),
              !.gameState = ROLL,
              !.currentPiece = g.players[randomIndex + 1]]

\* constructor(numberOfPlayers): the field initialisers, then reset()
construct(numberOfPlayers, randomIndex) ==
    reset([players |-> playersFor(numberOfPlayers),
           tokenPositions |-> [color \in Color |-> [i \in TokenIndex |-> -1]],
           currentPiece |-> "blue",
           ranking |-> <<>>,
           currentDiceRoll |-> Null,
           lastDiceRoll |-> Null,
           validTokenIndices |-> <<>>,
           currentConsecutiveSixes |-> 0,
           currentBoardStatus |-> Status("", "", 0),
           gameState |-> ROLL],
          randomIndex)

\* skipTurn calling resetTurnState() with its default, true
skipTurn_ClearsLastRoll(g, status) ==
    nextTurn(resetTurnState([g EXCEPT !.currentBoardStatus = status], TRUE))

\* rollDiceForCurrentPiece's two branches that give the turn away: the
\* status text, resetTurnState(false), nextTurn()
skipTurn(g, status) ==
    nextTurn(resetTurnState([g EXCEPT !.currentBoardStatus = status], FALSE))

\* rollDiceForCurrentPiece past its two guards: rollValue is the value of
\* random(1, 6)
rollDice(g, rollValue) ==
    LET g1 == [g EXCEPT !.currentDiceRoll = rollValue,
                        !.lastDiceRoll = rollValue,
                        !.currentConsecutiveSixes = IF rollValue = 6 THEN @ + 1 ELSE 0]
    IN  IF rollValue = 6 /\ g1.currentConsecutiveSixes = 3
        THEN [self |-> skipTurn(g1, Status("ThreeSixes", g1.currentPiece, 0)),
              ret |-> rollValue]
        ELSE
          LET g2 == [g1 EXCEPT !.validTokenIndices =
                                  getValidMoves(g1, g1.currentPiece, rollValue)]
          IN  IF Len(g2.validTokenIndices) = 0
              THEN [self |-> skipTurn(g2, Status("NoValidMoves", g2.currentPiece,
                                                 rollValue)),
                    ret |-> rollValue]
              ELSE [self |-> [g2 EXCEPT !.gameState = SELECT], ret |-> rollValue]

\* rollDiceForCurrentPiece whose refusal also runs resetTurnState(false)
rollDiceForCurrentPiece_RefusalClearsRoll(g, rollValue) ==
    IF g.gameState # ROLL
    THEN [self |-> resetTurnState(
                      [g EXCEPT !.currentBoardStatus =
                          Status("InvalidRoll", g.gameState, 0)], FALSE),
          ret |-> -1]
    ELSE IF g.currentDiceRoll # Null
    THEN [self |-> [g EXCEPT !.currentBoardStatus = Status("AlreadyRolled", "", 0)],
          ret |-> g.currentDiceRoll]
    ELSE rollDice(g, rollValue)

\* rollDiceForCurrentPiece refusing only while a selection is awaited: a
\* finished game still rolls
rollDiceForCurrentPiece_OnlySelectBlocks(g, rollValue) ==
    IF g.gameState = SELECT
    THEN [self |-> [g EXCEPT !.currentBoardStatus = Status("InvalidRoll", g.gameState, 0)],
          ret |-> -1]
    ELSE IF g.currentDiceRoll # Null
    THEN [self |-> [g EXCEPT !.currentBoardStatus = Status("AlreadyRolled", "", 0)],
          ret |-> g.currentDiceRoll]
    ELSE rollDice(g, rollValue)

\* rollDiceForCurrentPiece(): the object after the call and the value returned
rollDiceForCurrentPiece(g, rollValue) ==
    IF g.gameState # ROLL
    THEN [self |-> [g EXCEPT !.currentBoardStatus = Status("InvalidRoll", g.gameState, 0)],
          ret |-> -1]
    ELSE IF g.currentDiceRoll # Null
    THEN [self |-> [g EXCEPT !.currentBoardStatus = Status("AlreadyRolled", "", 0)],
          ret |-> g.currentDiceRoll]
    ELSE rollDice(g, rollValue)

\* an early return that also runs resetTurnState(false)
rejected_ClearsRoll(g, status) ==
    [self |-> resetTurnState([g EXCEPT !.currentBoardStatus = status], FALSE),
     ok |-> FALSE, roll |-> Null, from |-> -1, newPos |-> -1, captures |-> 0,
     threw |-> FALSE]

\* a selectToken call that returns before moving: only the status text is written
rejected(g, status) ==
    [self |-> [g EXCEPT !.currentBoardStatus = status],
     ok |-> FALSE, roll |-> Null, from |-> -1, newPos |-> -1, captures |-> 0,
     threw |-> FALSE]

\* newPosOf with the track counted from 1: a move lands one cell further
newPosOf_OneBased(currentPos, roll) ==
    IF currentPos = -1 THEN 0 ELSE currentPos + roll + 1

\* newPosOf without the home case: a token at -1 advances by the roll
newPosOf_NoHomeCase(currentPos, roll) ==
    currentPos + roll

\* selectToken's computation of newPos from currentPos and the roll
newPosOf(currentPos, roll) ==
    IF currentPos = -1 THEN 0 ELSE currentPos + roll

\* capturesAllowed without the safe-zone test
capturesAllowed_NoSafeTest(newPos) ==
    newPos # 56

\* selectToken's test before handleCollisions
capturesAllowed(newPos) ==
    newPos # 56 /\ ~includes(safeZones, newPos)

\* updateRanking without the allDone test: the first token on 56 ranks the color
updateRanking_FirstToken(g, newPos) ==
    IF newPos = 56 /\ ~includes(g.ranking, g.currentPiece)
    THEN [g EXCEPT !.ranking = Append(@, g.currentPiece)]
    ELSE g

\* selectToken's "check if token just finished"
updateRanking(g, newPos) ==
    LET allDone == \A i \in TokenIndex : g.tokenPositions[g.currentPiece][i] = 56
    IN  IF newPos = 56 /\ allDone /\ ~includes(g.ranking, g.currentPiece)
        THEN [g EXCEPT !.ranking = Append(@, g.currentPiece)]
        ELSE g

\* turnAfterMove without the `if (roll === 6)` branch
turnAfterMove_NoSixBonus(g, roll, captures) ==
    IF captures > 0
    THEN [g EXCEPT !.currentBoardStatus = Status("Captured", g.currentPiece, captures),
                   !.gameState = ROLL]
    ELSE nextTurn(g)

\* selectToken's end: the same player's turn after a capture or a 6, else
\* the next player's
turnAfterMove(g, roll, captures) ==
    IF captures > 0
    THEN [g EXCEPT !.currentBoardStatus = Status("Captured", g.currentPiece, captures),
                   !.gameState = ROLL]
    ELSE IF roll = 6
    THEN [g EXCEPT !.currentBoardStatus = Status("RolledSix", g.currentPiece, 0),
                   !.gameState = ROLL]
    ELSE nextTurn(g)

\* selectToken(tokenIndex): the object after the call, whether the token was
\* moved, the locals roll, currentPos, newPos and captures, and whether the
\* call ended in handleCollisions' TypeError (the move is then already written
\* and the rest of the method is not run)
selectToken(g, tokenIndex) ==
    IF g.gameState # SELECT
    THEN rejected(g, Status("InvalidSelect", g.gameState, 0))
    ELSE IF g.currentDiceRoll = Null
    THEN rejected(g, Status("MustRoll", "", 0))
    ELSE IF ~includes(g.validTokenIndices, tokenIndex)
    THEN rejected(g, Status("NotValidChoice", "", 0))
    ELSE
      LET roll == g.currentDiceRoll
          currentPos == g.tokenPositions[g.currentPiece][tokenIndex]
      IN  IF currentPos = -1 /\ roll # 6
          THEN rejected(g, Status("CantLeaveHome", "", 0))
          ELSE IF currentPos # -1 /\ currentPos + roll > TRACK_LENGTH - 1
          THEN rejected(g, Status("WouldExceed", "", 0))
          ELSE
            LET newPos == newPosOf(currentPos, roll)
                \* perform move
                g1 == [g EXCEPT !.tokenPositions[g.currentPiece][tokenIndex] = newPos]
                \* handle captures
                col == IF capturesAllowed(newPos)
                       THEN handleCollisions(g1, newPos, g1.currentPiece)
                       ELSE [self |-> g1, captures |-> 0, threw |-> FALSE]
                \* check if token just finished
                g2 == updateRanking(col.self, newPos)
                \* reset dice and valid moves
                g3 == resetTurnState(g2, FALSE)
            IN  [self |-> IF col.threw THEN col.self
                          ELSE turnAfterMove(g3, roll, col.captures),
                 ok |-> TRUE, roll |-> roll, from |-> currentPos,
                 newPos |-> newPos, captures |-> col.captures, threw |-> col.threw]

-----------------------------------------------------------------------------
(* bestMove                                                                *)

\* bestMove's WEIGHTS.  DISTANCE_ADVANCE_FACTOR is 0.5: scores are kept
\* doubled, so that they are integers, and the factor is then 1
WEIGHTS ==
    [CAPTURE_BONUS |-> 50,
     LEAVE_HOME_BONUS |-> 35,
     LAND_SAFE_ZONE_BONUS |-> 25,
     APPROACH_FINAL_BONUS |-> 15,
     REACH_FINAL_BONUS |-> 100,
     DISTANCE_ADVANCE_FACTOR_TWICE |-> 1,
     RISK_PENALTY_NEAR_OPPONENT |-> 40]

\* Number.NEGATIVE_INFINITY: below every score (a doubled score is at least
\* -2 * 40 * 12)
NEGATIVE_INFINITY == -1000000

\* bestMove's count of opponent tokens on the cell of newPos (a token off its
\* path has no cell: reading it throws, see bestMoveThrows)
potentialCaptures(g, newPos) ==
    Cardinality({ci \in Color \X TokenIndex :
        /\ visited(g, ci[1], ci[2], g.currentPiece)
        /\ ~noCell(g.tokenPositions[ci[1]][ci[2]])
        /\ pathCell(ci[1], g.tokenPositions[ci[1]][ci[2]])
              = pathCell(g.currentPiece, newPos)})

\* capturesCounted counting on safe indices too
capturesCounted_OnSafeToo(g, newPos) ==
    IF newPos # 56 THEN potentialCaptures(g, newPos) ELSE 0

\* bestMove's `captures` for a candidate: counted only off the safe indices
\* and off 56
capturesCounted(g, newPos) ==
    IF newPos # 56 /\ ~includes(safeZones, newPos)
    THEN potentialCaptures(g, newPos)
    ELSE 0

\* bestMove's count of opponent tokens that reach the cell of newPos with
\* some roll 1..6
riskyOpponents(g, newPos) ==
    Cardinality({ci \in Color \X TokenIndex :
        /\ visited(g, ci[1], ci[2], g.currentPiece)
        /\ \E diceCheck \in 1..6 :
              LET testPos == g.tokenPositions[ci[1]][ci[2]] + diceCheck
              IN  /\ testPos <= 56
                  /\ pathCell(ci[1], testPos) = pathCell(g.currentPiece, newPos)})

\* bestMove's "risk penalty if opponents could capture"
riskPenalty(g, newPos) ==
    IF newPos < 56
    THEN riskyOpponents(g, newPos) * WEIGHTS.RISK_PENALTY_NEAR_OPPONENT
    ELSE 0

\* twice the score bestMove's loop body gives to token i
scoreTwice(g, i) ==
    LET roll == g.currentDiceRoll
        currentPos == g.tokenPositions[g.currentPiece][i]
        newPos == IF currentPos = -1 THEN 0 ELSE currentPos + roll
    IN  2 * ( (IF currentPos = -1 /\ roll = 6 THEN WEIGHTS.LEAVE_HOME_BONUS ELSE 0)
            + (IF includes(safeZones, newPos)
               THEN WEIGHTS.LAND_SAFE_ZONE_BONUS ELSE 0)
            + capturesCounted(g, newPos) * WEIGHTS.CAPTURE_BONUS
            + (IF newPos >= 51 /\ newPos < 56
               THEN WEIGHTS.APPROACH_FINAL_BONUS ELSE 0)
            + (IF newPos = 56 THEN WEIGHTS.REACH_FINAL_BONUS ELSE 0) )
        + newPos * WEIGHTS.DISTANCE_ADVANCE_FACTOR_TWICE
        - 2 * riskPenalty(g, newPos)

\* bestFrom with `score >= bestScore`: the last of equal scores wins
RECURSIVE bestFrom_GreaterOrEqual(_, _, _, _, _)
bestFrom_GreaterOrEqual(g, valid, k, bestScore, bestIndex) ==
    IF k > Len(valid) THEN bestIndex
    ELSE LET score == scoreTwice(g, valid[k])
         IN  IF score >= bestScore
             THEN bestFrom_GreaterOrEqual(g, valid, k + 1, score, valid[k])
             ELSE bestFrom_GreaterOrEqual(g, valid, k + 1, bestScore, bestIndex)

\* bestMove's loop `for (const i of valid)` from the k-th element on
RECURSIVE bestFrom(_, _, _, _, _)
bestFrom(g, valid, k, bestScore, bestIndex) ==
    IF k > Len(valid) THEN bestIndex
    ELSE LET score == scoreTwice(g, valid[k])
         IN  IF score > bestScore
             THEN bestFrom(g, valid, k + 1, score, valid[k])
             ELSE bestFrom(g, valid, k + 1, bestScore, bestIndex)

\* bestMove reads a path cell that is undefined (a TypeError): for some valid
\* token either its own newPos is off the path, or newPos is neither 56 nor a
\* safe index and the capture count reads the cell of an opponent token that
\* is off its path
bestMoveThrows(g) ==
    /\ g.currentDiceRoll # Null
    /\ \E i \in TokenIndex :
          /\ canMove(g.tokenPositions[g.currentPiece][i], g.currentDiceRoll)
          /\ LET newPos == newPosOf(g.tokenPositions[g.currentPiece][i],
                                    g.currentDiceRoll)
             IN  \/ noCell(newPos)
                 \/ /\ newPos # 56
                    /\ ~includes(safeZones, newPos)
                    /\ \E ci \in Color \X TokenIndex :
                          /\ visited(g, ci[1], ci[2], g.currentPiece)
                          /\ noCell(g.tokenPositions[ci[1]][ci[2]])

\* bestMove returning the place in `valid` instead of the token index
bestMove_PlaceInValid(g) ==
    IF g.currentDiceRoll = Null THEN -1
    ELSE LET valid == getValidMoves(g, g.currentPiece, g.currentDiceRoll)
         IN  IF Len(valid) = 0 \/ bestMoveThrows(g) THEN -1
             ELSE indexOf(valid, bestFrom(g, valid, 1, NEGATIVE_INFINITY, valid[1]))

\* bestMove(): the value returned (-1 as well when the call throws)
bestMove(g) ==
    IF g.currentDiceRoll = Null THEN -1
    ELSE LET valid == getValidMoves(g, g.currentPiece, g.currentDiceRoll)
         IN  IF Len(valid) = 0 \/ bestMoveThrows(g) THEN -1
             ELSE bestFrom(g, valid, 1, NEGATIVE_INFINITY, valid[1])

-----------------------------------------------------------------------------
(* The environment: the random source and the caller                       *)
(*                                                                         *)
(* One game per player count is recorded as the sequence of its inputs: an *)
(* entry v in 1..6 is the value random(1, 6) gives a rollDiceForCurrentPiece *)
(* call and an entry 10 + i is a selectToken(i) call.  The caller replays  *)
(* the recorded game of its player count from a construction whose first   *)
(* color is players[0], and may depart from it at any point to make up to  *)
(* MaxFree calls with any inputs; every state met is thus reached from     *)
(* construction by calls of the public methods alone.  The recorded games  *)
(* hold no reset() (input 20 + randomIndex) and no bestMove() (input 30):  *)
(* these calls always depart from the recorded game.                       *)

\* RECORDED-BEGIN
recorded2 ==
    <<
      1, 6, 11, 6, 11, 6, 6, 10, 6, 13, 5, 13, 6, 12, 6, 12, 5, 11, 5, 10,
      5, 12, 6, 10, 6, 13, 4, 10, 6, 12, 6, 11, 5, 11, 4, 13, 5, 12, 6, 10,
      6, 13, 4, 10, 6, 12, 6, 11, 5, 12, 4, 13, 5, 11, 5, 13, 6, 11, 6, 11,
      5, 12, 5, 10, 5, 12, 6, 10, 6, 13, 5, 13, 2, 12, 5, 10, 5, 12, 6, 12,
      6, 13, 5, 13, 5, 11, 4, 13, 6, 12, 6, 11, 1, 6, 11, 6, 10, 5, 12, 6,
      10, 6, 10, 5, 10, 5, 11, 6, 10, 4, 10, 6, 12, 6, 11, 5, 12, 6, 13, 6,
      10, 5, 10, 5, 11, 6, 10, 4, 10, 6, 13, 6, 13, 5, 10, 6, 10, 3, 10, 5,
      10, 6, 11, 6, 11, 3, 11, 4, 10, 6, 12, 6, 11, 5, 12, 5, 13, 5, 11, 5,
      13, 6, 11, 6, 11, 5, 11, 6, 13, 3, 13, 6, 13, 5, 13, 6, 12, 6, 11, 5,
      12, 6, 13, 6, 13, 2, 13, 6, 12, 6, 11, 5, 12, 1, 6, 11, 1, 11, 1, 5,
      12, 1, 5, 12, 1, 5, 12, 1, 5, 12, 1, 5, 12, 1, 3, 12, 1, 6, 12, 3,
      12, 1, 3, 12
    >>

recorded3 ==
    <<
      1, 6, 13, 6, 12, 6, 6, 12, 6, 10, 5, 10, 6, 12, 6, 13, 4, 13, 6, 12,
      6, 13, 5, 12, 5, 12, 4, 12, 5, 13, 6, 10, 6, 12, 4, 10, 6, 11, 4, 11,
      5, 12, 4, 12, 6, 12, 6, 13, 5, 13, 5, 13, 6, 12, 6, 11, 3, 11, 6, 11
    >>

recorded4 ==
    <<
      1, 6, 13, 6, 12, 6, 6, 12, 6, 10, 5, 10, 6, 12, 6, 13, 4, 13, 6, 11,
      6, 13, 5, 11, 6, 13, 6, 12, 5, 13, 5, 12, 4, 12, 5, 13, 5, 12, 6, 12,
      6, 12, 5, 10, 6, 12, 4, 12, 6, 10, 6, 11, 4, 10, 6, 11, 6, 11, 4, 13,
      6, 12, 6, 12, 3, 12, 6, 10, 6, 10, 5, 10, 6, 12, 6, 10, 4, 10, 6, 13
    >>

\* RECORDED-END
recorded(numberOfPlayers) ==
    IF numberOfPlayers = 2 THEN recorded2
    ELSE IF numberOfPlayers = 3 THEN recorded3
    ELSE recorded4

\* calls allowed after departing from the recorded game
MaxFree == 3

\* the arguments a caller passes to selectToken: 0..3, and one on each side
TokenInputs == -1..4

\* one call with input `code`: the next recorded one, or a free one
Advance(code) ==
    LET rec == recorded(Len(players))
    IN  IF replay > 0 /\ replay <= Len(rec) /\ rec[replay] = code
        THEN replay' = replay + 1 /\ free' = free
        ELSE free > 0 /\ replay' = 0 /\ free' = free - 1

\* the fields of the object after a call
Assign(g) ==
    /\ players' = g.players
    /\ tokenPositions' = g.tokenPositions
    /\ currentPiece' = g.currentPiece
    /\ ranking' = g.ranking
    /\ currentDiceRoll' = g.currentDiceRoll
    /\ lastDiceRoll' = g.lastDiceRoll
    /\ validTokenIndices' = g.validTokenIndices
    /\ currentConsecutiveSixes' = g.currentConsecutiveSixes
    /\ currentBoardStatus' = g.currentBoardStatus
    /\ gameState' = g.gameState

\* what is remembered of a call: the method, whether it was accepted, the
\* color whose turn it was, the token moved and the dice value drawn or
\* consumed, the move made, the capture count, the value returned and
\* whether the call threw
Call(op, ok, color, token, roll, from, newPos, captures, ret, threw) ==
    [op |-> op, ok |-> ok, color |-> color, token |-> token, roll |-> roll,
     from |-> from, newPos |-> newPos, captures |-> captures, ret |-> ret,
     threw |-> threw]

-----------------------------------------------------------------------------
(* The state machine                                                       *)

Init ==
    \E numberOfPlayers \in 2..4 :
      \E randomIndex \in 0..(numberOfPlayers - 1) :
        LET g == construct(numberOfPlayers, randomIndex)
        IN  /\ players = g.players
            /\ tokenPositions = g.tokenPositions
            /\ currentPiece = g.currentPiece
            /\ ranking = g.ranking
            /\ currentDiceRoll = g.currentDiceRoll
            /\ lastDiceRoll = g.lastDiceRoll
            /\ validTokenIndices = g.validTokenIndices
            /\ currentConsecutiveSixes = g.currentConsecutiveSixes
            /\ currentBoardStatus = g.currentBoardStatus
            /\ gameState = g.gameState
            /\ last = Call("construct", TRUE, g.currentPiece, -1, Null, -1, -1, 0, 0, FALSE)
            /\ replay = IF randomIndex = 0 THEN 1 ELSE 0
            /\ free = MaxFree

Roll(rollValue) ==
    LET r == rollDiceForCurrentPiece(Self, rollValue)
        ok == gameState = ROLL /\ currentDiceRoll = Null
    IN  /\ Advance(rollValue)
        /\ Assign(r.self)
        /\ last' = Call("roll", ok, currentPiece, -1, IF ok THEN rollValue ELSE Null,
                        -1, -1, 0, r.ret, FALSE)

Select(tokenIndex) ==
    LET r == selectToken(Self, tokenIndex)
    IN  /\ Advance(10 + tokenIndex)
        /\ Assign(r.self)
        /\ last' = Call("select", r.ok, currentPiece, IF r.ok THEN tokenIndex ELSE -1,
                        r.roll, r.from, r.newPos, r.captures, 0, r.threw)

Reset(randomIndex) ==
    LET g == reset(Self, randomIndex)
    IN  /\ Advance(20 + randomIndex)
        /\ Assign(g)
        /\ last' = Call("reset", TRUE, g.currentPiece, -1, Null, -1, -1, 0, 0, FALSE)

\* bestMove() assigns no field
BestMove ==
    /\ Advance(30)
    /\ Assign(Self)
    /\ last' = Call("bestMove", ~bestMoveThrows(Self), currentPiece, -1,
                    currentDiceRoll, -1, -1, 0, bestMove(Self), bestMoveThrows(Self))

Next ==
    \/ \E rollValue \in Dice : Roll(rollValue)
    \/ \E tokenIndex \in TokenInputs : Select(tokenIndex)
    \/ \E randomIndex \in 0..(Len(players) - 1) : Reset(randomIndex)
    \/ BestMove

Spec == Init /\ [][Next]_vars

-----------------------------------------------------------------------------
(* Properties                                                              *)

\* the call that led to this state moved a token
Moved == last.op = "select" /\ last.ok

\* the cyclic successor of color in the active-color list
successor(color) == players[((indexOf(players, color) + 1) % Len(players)) + 1]

\* C1: in every reachable state every token position of every color is -1
\* or an integer in 0..56; no position exceeds 56.
C1_PositionsInRange ==
    \A color \in Color : \A i \in TokenIndex :
        tokenPositions[color][i] \in ({-1} \cup 0..56)

\* C1 witness: a token has just been moved onto 56 by exactly the roll it
\* needed, the largest position a move can produce.
C1_Witness ==
    /\ Moved
    /\ last.newPos = 56
    /\ last.from + last.roll = 56
    /\ tokenPositions[last.color][last.token] = 56

\* C2: once a token's position is 56 it stays 56 across every later
\* rollDiceForCurrentPiece and selectToken call, its own color's moves and
\* every opponent's captures; only reset changes it.
C2_FinalStays ==
    [][last'.op # "reset" =>
        \A color \in Color : \A i \in TokenIndex :
            tokenPositions[color][i] = 56 => tokenPositions'[color][i] = 56]_vars

\* C2 witness: in a two-player game a move has just captured a token of the
\* opponent while another token of that opponent stands on 56.
C2_Witness ==
    /\ Moved
    /\ last.captures > 0
    /\ Len(players) = 2
    /\ \E color \in Color \ {last.color} : \E i, j \in TokenIndex :
          /\ includes(players, color)
          /\ tokenPositions[color][i] = 56
          /\ tokenPositions[color][j] = -1

\* C3: outside reset, a token's position decreases in a step only when the
\* step is a successful selectToken by a different color whose destination is
\* the physical cell the token stands on, and the token then goes to exactly
\* -1; a color's own selectToken never decreases that color's positions.
C3_OnlyCaptureSendsHome ==
    [][last'.op # "reset" =>
        \A color \in Color : \A i \in TokenIndex :
            tokenPositions'[color][i] < tokenPositions[color][i] =>
                /\ last'.op = "select" /\ last'.ok
                /\ last'.color = currentPiece
                /\ last'.color # color
                /\ tokenPositions[color][i] \in 0..55
                /\ last'.newPos \in 0..55
                /\ pathCell(color, tokenPositions[color][i])
                      = pathCell(last'.color, last'.newPos)
                /\ tokenPositions'[color][i] = -1]_vars

\* C3 witness: in a four-player game a move has just sent exactly one
\* opponent token home while the mover's own token stays on the cell.
C3_Witness ==
    /\ Moved
    /\ last.captures = 1
    /\ Len(players) = 4
    /\ tokenPositions[last.color][last.token] = last.newPos
    /\ currentPiece = last.color

\* C4: a token at -1 changes position only through a successful selectToken
\* of that token while the pending roll is exactly 6, and its new position is
\* then 0; with a pending roll in 1..5 no call moves a token that is at -1.
C4_LeaveHomeOnlyOnSix ==
    [][\A color \in Color : \A i \in TokenIndex :
          (tokenPositions[color][i] = -1 /\ tokenPositions'[color][i] # -1) =>
              /\ last'.op = "select" /\ last'.ok
              /\ currentPiece = color
              /\ last'.token = i
              /\ gameState = SELECT
              /\ currentDiceRoll = 6
              /\ tokenPositions'[color][i] = 0]_vars

\* C4 witness: a token has just left home on a 6 and stands on index 0,
\* while another token of the same color is still at home.
C4_Witness ==
    /\ Moved
    /\ last.from = -1
    /\ last.roll = 6
    /\ tokenPositions[last.color][last.token] = 0
    /\ \E j \in TokenIndex \ {last.token} : tokenPositions[last.color][j] = -1

\* the eligibility rule as the specification states it
Eligible(pos, roll) ==
    \/ pos = -1 /\ roll = 6
    \/ pos \in 0..55 /\ pos + roll <= 56

\* the set of elements of a sequence
Range(seq) == {seq[k] : k \in 1..Len(seq)}

\* C5: after a roll that leads to AwaitingSelection, validTokenIndices is
\* exactly the set of indices i of the current color with (position = -1 and
\* roll = 6) or (position in 0..55 and position + roll <= 56), a token at 56
\* is never in it, and an accepted roll leads to AwaitingSelection exactly
\* when that set is non-empty and the roll is not the third consecutive six.
C5_LegalSet ==
    /\ [](gameState = SELECT =>
            /\ Range(validTokenIndices) =
                  {i \in TokenIndex :
                      Eligible(tokenPositions[currentPiece][i], currentDiceRoll)}
            /\ \A i \in Range(validTokenIndices) : tokenPositions[currentPiece][i] # 56)
    /\ [][(last'.op = "roll" /\ last'.ok) =>
            LET E == {i \in TokenIndex :
                        Eligible(tokenPositions[currentPiece][i], last'.roll)}
                third == last'.roll = 6 /\ currentConsecutiveSixes = 2
            IN  /\ (gameState' = SELECT) <=> (E # {} /\ ~third)
                /\ (gameState' = SELECT) =>
                      /\ Range(validTokenIndices') = E
                      /\ Len(validTokenIndices') = Cardinality(E)
                      /\ currentDiceRoll' = last'.roll
                      /\ currentPiece' = currentPiece]_vars

\* C5 witness: a roll has just opened AwaitingSelection for a color with a
\* token on 56, a token that would overshoot, and a token that can move.
C5_Witness ==
    /\ last.op = "roll" /\ last.ok
    /\ gameState = SELECT
    /\ \E i, j, k \in TokenIndex :
          /\ tokenPositions[currentPiece][i] = 56
          /\ tokenPositions[currentPiece][j] \in 51..55
          /\ tokenPositions[currentPiece][j] + currentDiceRoll > 56
          /\ k \in Range(validTokenIndices)
          /\ j \notin Range(validTokenIndices)
          /\ i \notin Range(validTokenIndices)

\* C6 as stated: after a successful selectToken that captured nothing and
\* consumed a roll other than 6 the current color is the next color in the
\* cyclic order of the active-color list; after one that captured a token or
\* consumed a 6 the current color is unchanged and the phase is AwaitingRoll.
C6_Original ==
    Moved =>
        IF last.captures > 0 \/ last.roll = 6
        THEN currentPiece = last.color /\ gameState = ROLL
        ELSE currentPiece = successor(last.color)

\* C6 amended: as C6, except that when the ranking holds every active color
\* after a capture-free non-six move the phase becomes Finished and the
\* current color is unchanged; otherwise the next color is to roll.
C6_TurnAfterMove ==
    Moved =>
        IF last.captures > 0 \/ last.roll = 6
        THEN currentPiece = last.color /\ gameState = ROLL
        ELSE IF Len(ranking) >= Len(players)
        THEN currentPiece = last.color /\ gameState = FINISHED
        ELSE currentPiece = successor(last.color) /\ gameState = ROLL

\* C6 witness: the last unfinished token has just reached 56 on a roll other
\* than 6, and the game is over with the mover still the current color.
C6_Witness ==
    /\ Moved
    /\ last.roll \in 1..5
    /\ last.captures = 0
    /\ last.newPos = 56
    /\ gameState = FINISHED
    /\ currentPiece = last.color

\* C7: when a color rolls its third consecutive 6 within one unbroken turn,
\* the roll never enters AwaitingSelection: the pending roll and the legal set
\* are cleared, the turn advances to the next color, and the consecutive-six
\* counter is 0 for that next color.
C7_ThirdSixForfeits ==
    [][(last'.op = "roll" /\ last'.ok /\ last'.roll = 6
            /\ currentConsecutiveSixes = 2) =>
          /\ gameState' = ROLL
          /\ currentDiceRoll' = Null
          /\ validTokenIndices' = <<>>
          /\ currentPiece' = successor(currentPiece)
          /\ currentConsecutiveSixes' = 0]_vars

\* an opponent token stands on the cell the last move landed on
OpponentOnDestination ==
    \E color \in Color \ {last.color} : \E i \in TokenIndex :
        /\ includes(players, color)
        /\ tokenPositions[color][i] \in 0..55
        /\ pathCell(color, tokenPositions[color][i]) = pathCell(last.color, last.newPos)

\* C8: a successful selectToken whose destination is index 56, or a physical
\* cell flagged as a safe zone (a start cell entered from home included),
\* changes no opponent token's position and grants no capture-based extra
\* turn, whatever opponent tokens stand on that cell.
C8_NoCaptureOnSafeOrFinal ==
    [][(last'.op = "select" /\ last'.ok
            /\ (\/ last'.newPos = 56
                \/ isSafeZone(players, pathCell(currentPiece, last'.newPos)))) =>
          /\ \A color \in Color \ {currentPiece} :
                tokenPositions'[color] = tokenPositions[color]
          /\ last'.captures = 0
          /\ currentBoardStatus'.kind # "Captured"
          /\ last'.roll # 6 =>
                \/ gameState' = FINISHED
                \/ currentPiece' = successor(currentPiece)]_vars

\* C8 witness: a token has just moved along the track onto a safe-zone cell
\* where an opponent token stands; the opponent is still there and the turn
\* has passed on.
C8_Witness ==
    /\ Moved
    /\ last.from >= 0
    /\ last.roll # 6
    /\ last.newPos \in {8, 13, 21, 26, 34, 39, 47}
    /\ OpponentOnDestination
    /\ currentPiece # last.color

\* C9: for a successful selectToken whose destination is neither index 56 nor
\* a safe index, every token of every other active color that is not at -1 or
\* 56 and whose own-path coordinate equals the mover's destination coordinate
\* is set to -1, no other opponent token changes, and the capture count that
\* grants the extra turn equals the number of tokens sent home.
C9_CaptureResolution ==
    [][(last'.op = "select" /\ last'.ok
            /\ last'.newPos \notin {56, 0, 8, 13, 21, 26, 34, 39, 47}) =>
          LET dest == pathCell(currentPiece, last'.newPos)
              onDest(color, i) ==
                  /\ includes(players, color)
                  /\ tokenPositions[color][i] \notin {-1, 56}
                  /\ pathCell(color, tokenPositions[color][i]) = dest
              sentHome == {ci \in (Color \ {currentPiece}) \X TokenIndex :
                              /\ tokenPositions[ci[1]][ci[2]] # -1
                              /\ tokenPositions'[ci[1]][ci[2]] = -1}
          IN  /\ \A color \in Color \ {currentPiece} : \A i \in TokenIndex :
                    tokenPositions'[color][i] =
                        IF onDest(color, i) THEN -1 ELSE tokenPositions[color][i]
              /\ last'.captures = Cardinality(sentHome)
              /\ ~last'.threw
              /\ last'.captures > 0 =>
                    /\ currentPiece' = currentPiece
                    /\ gameState' = ROLL
                    /\ currentBoardStatus' =
                          Status("Captured", currentPiece, Cardinality(sentHome))
              /\ (last'.captures = 0 /\ last'.roll # 6) =>
                    currentPiece' # currentPiece]_vars

\* C9 witness: a move on a roll other than 6 has just sent two stacked
\* opponent tokens home at once, and the mover is to roll again.
C9_Witness ==
    /\ Moved
    /\ last.captures = 2
    /\ last.roll # 6
    /\ currentPiece = last.color
    /\ gameState = ROLL
    /\ ~OpponentOnDestination

\* C10: in every reachable state a color is in ranking if and only if all
\* four of its tokens are at 56; it is appended in the selectToken call that
\* brings its fourth token to 56; ranking holds no color twice and only active
\* colors, and between resets it only grows by appending.
C10_Ranking ==
    /\ [](/\ \A color \in Color :
                includes(ranking, color) <=>
                    \A i \in TokenIndex : tokenPositions[color][i] = 56
          /\ \A j, k \in 1..Len(ranking) : j # k => ranking[j] # ranking[k]
          /\ \A j \in 1..Len(ranking) : includes(players, ranking[j]))
    /\ [][last'.op # "reset" =>
            /\ Len(ranking') >= Len(ranking)
            /\ SubSeq(ranking', 1, Len(ranking)) = ranking
            /\ ranking' # ranking =>
                  /\ last'.op = "select" /\ last'.ok
                  /\ last'.newPos = 56
                  /\ ranking' = Append(ranking, currentPiece)
                  /\ \E i \in TokenIndex : tokenPositions[currentPiece][i] # 56]_vars

\* C10 witness: a color's fourth token has just reached 56 and the color is
\* the newest entry of the ranking, behind a color ranked earlier.
C10_Witness ==
    /\ Moved
    /\ last.newPos = 56
    /\ Len(ranking) = 2
    /\ ranking[2] = last.color
    /\ \A i \in TokenIndex : tokenPositions[last.color][i] = 56

\* C11: in every reachable state, if the ranking length equals the number of
\* active colors then the phase is Finished, and from such a state no
\* rollDiceForCurrentPiece or selectToken call succeeds.
C11_RankedMeansFinished ==
    /\ [](Len(ranking) = Len(players) => gameState = FINISHED)
    /\ [][(Len(ranking) = Len(players) /\ last'.op \in {"roll", "select"}) =>
            ~last'.ok]_vars

\* C12: once the phase is Finished, every rollDiceForCurrentPiece call
\* returns -1 and every selectToken call is rejected, and neither changes
\* token positions, ranking, current color, dice fields or phase; only reset
\* leaves the Finished phase.
C12_FinishedIsTerminal ==
    [][gameState = FINISHED =>
          /\ last'.op = "roll" => (last'.ret = -1 /\ ~last'.ok)
          /\ last'.op = "select" => ~last'.ok
          /\ last'.op \in {"roll", "select"} =>
                UNCHANGED <<tokenPositions, ranking, currentPiece, currentDiceRoll,
                            lastDiceRoll, gameState>>
          /\ gameState' # FINISHED => last'.op = "reset"]_vars

\* C12 witness: a roll has just been refused in a finished game.
C12_Witness ==
    /\ gameState = FINISHED
    /\ last.op = "roll"
    /\ last.ret = -1
    /\ currentBoardStatus = Status("InvalidRoll", FINISHED, 0)

\* C13: rollDiceForCurrentPiece called when the phase is not AwaitingRoll (a
\* roll is pending and not yet consumed, or the game is finished) returns -1
\* and leaves every field except the status text unchanged: no new dice value
\* is drawn, and the pending roll, previous roll, legal set, six counter,
\* current color, positions and ranking are as before.
C13_RefusedRollChangesNothing ==
    [][(last'.op = "roll" /\ gameState # ROLL) =>
          /\ last'.ret = -1
          /\ ~last'.ok
          /\ currentBoardStatus' = Status("InvalidRoll", gameState, 0)
          /\ UNCHANGED <<players, tokenPositions, currentPiece, ranking,
                         currentDiceRoll, lastDiceRoll, validTokenIndices,
                         currentConsecutiveSixes, gameState>>]_vars

\* C13 witness: a roll has just been refused while a selection is awaited;
\* the pending roll and its legal set are still there.
C13_Witness ==
    /\ last.op = "roll"
    /\ last.ret = -1
    /\ gameState = SELECT
    /\ currentDiceRoll \in Dice
    /\ lastDiceRoll = currentDiceRoll
    /\ validTokenIndices # <<>>
    /\ currentBoardStatus = Status("InvalidRoll", SELECT, 0)

\* C14: selectToken called outside AwaitingSelection, or with any index
\* (values outside 0..3 included) that is not in the legal set of the pending
\* roll, changes nothing except the status text: positions, ranking, current
\* color, pending and previous roll, legal set, six counter and phase are all
\* unchanged, and no exception is raised.
C14_RefusedSelectChangesNothing ==
    [][\A tokenIndex \in TokenInputs :
          (/\ last'.op = "select"
           /\ (gameState # SELECT \/ ~includes(validTokenIndices, tokenIndex))
           /\ Select(tokenIndex)) =>
              /\ ~last'.ok
              /\ ~last'.threw
              /\ UNCHANGED <<players, tokenPositions, currentPiece, ranking,
                             currentDiceRoll, lastDiceRoll, validTokenIndices,
                             currentConsecutiveSixes, gameState>>]_vars

\* C14 witness: a selection has just been refused while a selection is
\* awaited, for an index outside the legal set; the pending roll, its legal
\* set and a token that could move are still there.
C14_Witness ==
    /\ last.op = "select"
    /\ ~last.ok
    /\ gameState = SELECT
    /\ currentDiceRoll \in Dice
    /\ validTokenIndices # <<>>
    /\ \E i \in TokenIndex : ~includes(validTokenIndices, i)
    /\ currentBoardStatus = Status("NotValidChoice", "", 0)

\* token i of the current color is on the track and the pending roll would
\* take it past index 56
Overshoots(i) ==
    /\ gameState = SELECT
    /\ tokenPositions[currentPiece][i] \in 0..55
    /\ tokenPositions[currentPiece][i] + currentDiceRoll > TRACK_LENGTH - 1

\* C15: selecting a token whose move would overshoot the final cell (a token
\* at 53 with a rolled 5, say) is rejected, the token's position is unchanged,
\* and the status text after the call is the overshoot message, not the
\* invalid-choice or the phase-violation message.
C15_OvershootMessage ==
    [][\A i \in TokenIndex :
          (last'.op = "select" /\ Overshoots(i) /\ Select(i)) =>
              /\ ~last'.ok
              /\ tokenPositions' = tokenPositions
              /\ currentBoardStatus' = Status("WouldExceed", "", 0)]_vars

\* the status texts rollDiceForCurrentPiece writes, nextTurn's included
rollStatuses ==
    {"InvalidRoll", "AlreadyRolled", "ThreeSixes", "NoValidMoves", "NowTurn",
     "GameOver"}

\* the status texts selectToken writes, nextTurn's included
selectStatuses ==
    {"InvalidSelect", "MustRoll", "NotValidChoice", "CantLeaveHome",
     "WouldExceed", "Captured", "RolledSix", "NowTurn", "GameOver"}

\* C16: after every rollDiceForCurrentPiece or selectToken call, accepted or
\* rejected, the status text has been written by that call and describes that
\* call's outcome; it is never left over from an earlier call, in particular
\* not after an accepted roll that opens AwaitingSelection.
C16_StatusIsOfLastCall ==
    /\ last.op = "roll" => currentBoardStatus.kind \in rollStatuses
    /\ last.op = "select" => currentBoardStatus.kind \in selectStatuses
    \* a roll that opens the selection has not been through nextTurn
    /\ (last.op = "roll" /\ last.ok /\ gameState = SELECT) =>
          currentBoardStatus.kind \notin {"NowTurn", "GameOver"}

\* C17: from any reachable state (Finished and AwaitingSelection included),
\* reset yields a state where all positions of all colors are -1, ranking is
\* empty, the phase is AwaitingRoll, the pending roll, previous roll and legal
\* set are cleared, the six counter is 0, and the current color is a member of
\* the active-color list; the active-color list itself is unchanged.
C17_ResetClearsTheGame ==
    /\ [](last.op = "reset" =>
            /\ \A color \in Color : \A i \in TokenIndex :
                  tokenPositions[color][i] = -1
            /\ ranking = <<>>
            /\ gameState = ROLL
            /\ currentDiceRoll = Null
            /\ lastDiceRoll = Null
            /\ validTokenIndices = <<>>
            /\ currentConsecutiveSixes = 0
            /\ includes(players, currentPiece))
    /\ [][players' = players]_vars

\* C17 witness: a game of four has just been reset after two other calls off
\* the recorded game, and the last color of the list is to start.
C17_Witness ==
    /\ last.op = "reset"
    /\ Len(players) = 4
    /\ currentPiece = players[4]
    /\ free = 0
    /\ gameState = ROLL
    /\ ranking = <<>>

\* C18: when an accepted roll (not a third consecutive six) leaves the
\* current color with no legally movable token, the pending roll and legal
\* set are cleared, no position changes, the turn advances to the next color
\* in cyclic active-color order with six counter 0, and the phase stays
\* AwaitingRoll.
C18_AutoPass ==
    [][(/\ last'.op = "roll" /\ last'.ok
        /\ ~(last'.roll = 6 /\ currentConsecutiveSixes = 2)
        /\ \A i \in TokenIndex :
              ~Eligible(tokenPositions[currentPiece][i], last'.roll)) =>
          /\ currentDiceRoll' = Null
          /\ validTokenIndices' = <<>>
          /\ tokenPositions' = tokenPositions
          /\ currentPiece' = successor(currentPiece)
          /\ currentConsecutiveSixes' = 0
          /\ gameState' = ROLL]_vars

\* C19: after every successful selectToken the pending roll is null and the
\* legal set is empty, while the previous roll still equals the value just
\* consumed; the previous roll is cleared only by reset, and whenever a roll
\* is pending it equals the previous roll.
C19_DiceFieldsAfterMove ==
    /\ [](/\ Moved =>
                /\ currentDiceRoll = Null
                /\ validTokenIndices = <<>>
                /\ lastDiceRoll = last.roll
                /\ last.roll \in Dice
          /\ currentDiceRoll # Null => currentDiceRoll = lastDiceRoll)
    /\ [][(lastDiceRoll # Null /\ lastDiceRoll' = Null) => last'.op = "reset"]_vars

\* C19 witness: a move has just consumed a 3 after which the next color is to
\* roll; nothing is pending and the previous roll still shows the 3.
C19_Witness ==
    /\ Moved
    /\ last.roll = 3
    /\ lastDiceRoll = 3
    /\ currentDiceRoll = Null
    /\ validTokenIndices = <<>>
    /\ currentPiece # last.color

\* C20: bestMove never changes any engine state; when no roll is pending it
\* returns -1, and when a roll is pending it returns an index that is a member
\* of validTokenIndices, so that selectToken(bestMove()) is always accepted in
\* AwaitingSelection.
C20_BestMoveIsLegal ==
    /\ [](LET index == bestMove(Self)
          IN  /\ currentDiceRoll = Null => index = -1
              /\ currentDiceRoll # Null => includes(validTokenIndices, index)
              /\ gameState = SELECT => selectToken(Self, index).ok
              /\ last.op = "bestMove" => (last.ret = index /\ ~last.threw))
    /\ [][last'.op = "bestMove" =>
            UNCHANGED <<players, tokenPositions, currentPiece, ranking,
                        currentDiceRoll, lastDiceRoll, validTokenIndices,
                        currentConsecutiveSixes, currentBoardStatus,
                        gameState>>]_vars

\* C20 witness: bestMove has just been asked with three tokens to choose from
\* and returned the last of them, not the first.
C20_Witness ==
    /\ last.op = "bestMove"
    /\ gameState = SELECT
    /\ Len(validTokenIndices) = 3
    /\ last.ret = validTokenIndices[3]
    /\ scoreTwice(Self, validTokenIndices[3]) > scoreTwice(Self, validTokenIndices[1])

\* the indices at which color's path visits cell
indicesOn(color, cell) == {k \in 0..(TRACK_LENGTH - 1) : pathCell(color, k) = cell}

\* the shared outer ring: the cells of indices 0..50 of the four paths
ringCells == {pathCell(color, k) : color \in Color, k \in 0..50}

\* each path has 57 pairwise-distinct coordinates inside the 15x15 grid
PathsWellFormed ==
    \A color \in Color :
        /\ Len(colorPaths[color]) = 57
        /\ \A j, k \in 0..56 : j # k => pathCell(color, j) # pathCell(color, k)
        /\ \A k \in 0..56 : pathCell(color, k) \in (0..14) \X (0..14)

\* two colors never visit a cell at the same path index
DifferentIndices ==
    \A cell \in ringCells : \A c1, c2 \in Color :
        c1 # c2 => indicesOn(c1, cell) \cap indicesOn(c2, cell) = {}

\* every ring cell is visited by all four paths
AllFourVisitEveryRingCell ==
    \A cell \in ringCells : \A color \in Color : indicesOn(color, cell) # {}

\* the ring has 52 cells; each path visits 51 of them and misses the cell
\* just before its own start cell, which the other three paths visit at
\* their indices 12, 25 and 38
EachPathMissesOneRingCell ==
    /\ Cardinality(ringCells) = 52
    /\ \A color \in Color :
          LET missed == {cell \in ringCells : indicesOn(color, cell) = {}}
          IN  /\ Cardinality(missed) = 1
              /\ \A cell \in missed :
                    {indicesOn(c2, cell) : c2 \in Color \ {color}}
                        = {{12}, {25}, {38}}

\* C21 as stated: each of the four color paths built by reset has exactly 57
\* pairwise-distinct coordinates inside the 15x15 grid, and every physical
\* cell of the shared outer ring is visited by all four color paths, each at
\* a different path index.
C21_Original ==
    Len(players) > 0 =>
        /\ PathsWellFormed
        /\ AllFourVisitEveryRingCell
        /\ DifferentIndices

\* C21 amended: each path has 57 pairwise-distinct coordinates inside the
\* grid; every cell of the shared outer ring is visited by all four paths
\* except the four cells just before a start cell, each of which is visited
\* by the three other colors' paths only; the paths that visit a cell do so
\* at different path indices.
C21_PathGeometry ==
    Len(players) > 0 =>
        /\ PathsWellFormed
        /\ EachPathMissesOneRingCell
        /\ DifferentIndices

\* C21 witness: tokens of two colors stand on the same ring cell, each at its
\* own path index, and a token stands on a ring cell that another color's
\* path does not visit.
C21_Witness ==
    /\ \E c1, c2 \in Color : \E i, j \in TokenIndex :
          /\ c1 # c2
          /\ tokenPositions[c1][i] \in 0..50
          /\ tokenPositions[c2][j] \in 0..50
          /\ pathCell(c1, tokenPositions[c1][i]) = pathCell(c2, tokenPositions[c2][j])
          /\ tokenPositions[c1][i] # tokenPositions[c2][j]
    /\ \E c1 \in Color : \E i \in TokenIndex :
          /\ tokenPositions[c1][i] \in {12, 25, 38}
          /\ \E c2 \in Color :
                indicesOn(c2, pathCell(c1, tokenPositions[c1][i])) = {}

\* the cells at indices 51..56 of a path occur in no other color's path
HomeStretchExclusive ==
    \A c1, c2 \in Color : \A k \in 51..56 :
        c1 # c2 => indicesOn(c2, pathCell(c1, k)) = {}

\* C22: the cells at indices 51..56 of a color's path occur in no other
\* color's path, so a token at an index in 51..55 can never be sent home by
\* any opponent move, and a move into 51..55 never captures.
C22_HomeStretchIsExclusive ==
    /\ [](/\ Len(players) > 0 => HomeStretchExclusive
          /\ (Moved /\ last.newPos \in 51..55) => last.captures = 0)
    /\ [][last'.op # "reset" =>
            \A color \in Color : \A i \in TokenIndex :
                tokenPositions[color][i] \in 51..55 =>
                    tokenPositions'[color][i] >= tokenPositions[color][i]]_vars

\* C22 witness: a token has just moved to an index in 51..55 while an
\* opponent token stands at the same index of its own path; both are there.
C22_Witness ==
    /\ Moved
    /\ last.newPos \in 51..55
    /\ tokenPositions[last.color][last.token] = last.newPos
    /\ \E color \in Color \ {last.color} : \E i \in TokenIndex :
          tokenPositions[color][i] = last.newPos

\* two path indices of different colors on one coordinate are both safe
\* indices or neither is
SafeIndicesAgree ==
    \A c1, c2 \in Color : \A j, k \in 0..56 :
        pathCell(c1, j) = pathCell(c2, k) =>
            (includes(safeZones, j) <=> includes(safeZones, k))

\* for every player count, the board's isSafeZone flag of a cell of an
\* active color's path is the safe test on that color's index
BoardFlagAgrees ==
    \A n \in 2..4 : \A m \in 1..n : \A k \in 0..56 :
        isSafeZone(playersFor(n), pathCell(playersFor(n)[m], k))
            <=> includes(safeZones, k)

\* C23: safe-zone membership is the same for every color that can stand on
\* a physical cell: if index i of one color's path and index j of another
\* color's path are the same coordinate, then i is in {0, 8, 13, 21, 26, 34,
\* 39, 47} if and only if j is; hence the mover-relative safe test in
\* selectToken agrees with the board's isSafeZone flag, and no token standing
\* on a cell that is safe by its own index can be captured.
C23_SafeZonesAgree ==
    /\ [](/\ Len(players) > 0 => (SafeIndicesAgree /\ BoardFlagAgrees)
          /\ players = playersFor(Len(players))
          /\ Moved =>
                (capturesAllowed(last.newPos)
                    <=> ~isSafeZone(players, pathCell(last.color, last.newPos))
                        /\ last.newPos # 56))
    /\ [][last'.op # "reset" =>
            \A color \in Color : \A i \in TokenIndex :
                includes(safeZones, tokenPositions[color][i]) =>
                    tokenPositions'[color][i] >= tokenPositions[color][i]]_vars

\* C23 witness: a token has just landed on a cell where an opponent token
\* stands; the cell is safe by the mover's index and by the opponent's, which
\* are different indices, and the opponent is still there.
C23_Witness ==
    /\ Moved
    /\ includes(safeZones, last.newPos)
    /\ \E color \in Color \ {last.color} : \E i \in TokenIndex :
          /\ includes(players, color)
          /\ tokenPositions[color][i] \in 0..50
          /\ pathCell(color, tokenPositions[color][i])
                = pathCell(last.color, last.newPos)
          /\ tokenPositions[color][i] # last.newPos
          /\ includes(safeZones, tokenPositions[color][i])

\* C24: the active-color list is [blue, green] for 2 players, [blue, red,
\* green] for 3 and [blue, red, green, yellow] for 4, it never changes during
\* play or on reset, the current color is always a member of it, and every
\* turn advance moves to the cyclic successor in that list.
C24_ActiveColors ==
    /\ [](/\ players \in {<<"blue", "green">>, <<"blue", "red", "green">>,
                          <<"blue", "red", "green", "yellow">>}
          /\ includes(players, currentPiece))
    /\ [][/\ players' = players
          /\ (currentPiece' # currentPiece /\ last'.op # "reset") =>
                currentPiece' = successor(currentPiece)]_vars

\* C24 witness: in a game of three the turn has just passed from green, the
\* last color of the list, round to blue, the first.
C24_Witness ==
    /\ players = <<"blue", "red", "green">>
    /\ last.op \in {"roll", "select"}
    /\ last.ok
    /\ last.color = "green"
    /\ currentPiece = "blue"
    /\ currentBoardStatus = Status("NowTurn", "blue", 0)

\* C25: every accepted rollDiceForCurrentPiece call returns a value in 1..6
\* equal to the previous-roll field after the call, also when the roll is
\* forfeited as a third six or auto-passed for lack of legal moves; -1 is
\* returned only for rejected calls.
C25_RollReturnsTheValue ==
    last.op = "roll" =>
        /\ last.ok =>
              /\ last.ret \in 1..6
              /\ last.ret = last.roll
              /\ last.ret = lastDiceRoll
        /\ ~last.ok => last.ret = -1

\* C25 witness: a 6 has just given the turn away (a third six in a row, or
\* no token able to use it); the call returned 6, nothing is pending and the
\* previous roll shows 6.
C25_Witness ==
    /\ last.op = "roll"
    /\ last.ok
    /\ last.ret = 6
    /\ lastDiceRoll = 6
    /\ currentDiceRoll = Null
    /\ currentPiece # last.color
    /\ gameState = ROLL

\* the destination of token i of the current color under the pending roll
destination(i) ==
    newPosOf(tokenPositions[currentPiece][i], currentDiceRoll)

\* C26: in bestMove's score, the risk penalty for opponents able to reach the
\* destination with a roll of 1..6 is applied only to candidates whose
\* destination is neither a safe index nor index 56; a candidate landing on a
\* safe index (entering at index 0, say) gets no risk penalty.
C26_NoRiskPenaltyOnSafe ==
    gameState = SELECT =>
        \A i \in Range(validTokenIndices) :
            (includes(safeZones, destination(i)) \/ destination(i) = 56) =>
                riskPenalty(Self, destination(i)) = 0

\* C27: bestMove returns the lowest-indexed legal token among those
\* attaining the maximum score: a later candidate replaces the current best
\* only on a strictly greater score, and two calls on the same state return
\* the same index.
C27_FirstOfTheBest ==
    (last.op = "bestMove" /\ gameState = SELECT) =>
        LET index == last.ret
            score == [i \in Range(validTokenIndices) |-> scoreTwice(Self, i)]
        IN  /\ index \in Range(validTokenIndices)
            /\ \A i \in Range(validTokenIndices) :
                  /\ score[i] <= score[index]
                  /\ i < index => score[i] < score[index]
            /\ index = bestMove(Self)

\* C27 witness: bestMove has just been asked in a state where two legal
\* tokens share the best score and a third scores less; it returned the
\* lower-indexed of the two.
C27_Witness ==
    /\ last.op = "bestMove"
    /\ gameState = SELECT
    /\ \E i, j, k \in Range(validTokenIndices) :
          /\ i < j
          /\ last.ret = i
          /\ scoreTwice(Self, i) = scoreTwice(Self, j)
          /\ scoreTwice(Self, k) < scoreTwice(Self, i)
          /\ k < i

\* C28: for every reachable AwaitingSelection state and every legal token i,
\* the number of captures bestMove counts for candidate i equals the number
\* of opponent tokens that selectToken(i) actually sends home from that state.
C28_CountedCapturesAreReal ==
    [][(last'.op = "select" /\ last'.ok) =>
          LET sentHome == {ci \in Color \X TokenIndex :
                              /\ tokenPositions[ci[1]][ci[2]] # -1
                              /\ tokenPositions'[ci[1]][ci[2]] = -1}
          IN  /\ capturesCounted(Self, destination(last'.token))
                    = Cardinality(sentHome)
              /\ last'.captures = Cardinality(sentHome)]_vars

\* C28 witness: a move has just sent two opponent tokens home from one cell.
C28_Witness ==
    /\ Moved
    /\ last.captures = 2
    /\ Cardinality({ci \in Color \X TokenIndex :
                      tokenPositions[ci[1]][ci[2]] = -1}) >= 2
    /\ tokenPositions[last.color][last.token] = last.newPos

\* C29: in every reachable state the three conditions 'phase is
\* AwaitingSelection', 'a roll is pending (non-null)' and 'the legal set is
\* non-empty' are equivalent; consequently the phase is never AwaitingRoll
\* with a pending roll, and the 'Already rolled' branch of
\* rollDiceForCurrentPiece that echoes the pending value is never taken.
C29_PendingIffSelecting ==
    /\ (gameState = SELECT) <=> (currentDiceRoll # Null)
    /\ (gameState = SELECT) <=> (validTokenIndices # <<>>)
    /\ ~(gameState = ROLL /\ currentDiceRoll # Null)
    /\ currentBoardStatus.kind # "AlreadyRolled"
    /\ last.op = "roll" => (last.ok <=> last.ret # -1)

\* C29 witness: a six has just been played and the same color is to roll
\* again; nothing is pending and the legal set is empty.
C29_Witness ==
    /\ Moved
    /\ last.roll = 6
    /\ gameState = ROLL
    /\ currentPiece = last.color
    /\ currentDiceRoll = Null
    /\ validTokenIndices = <<>>
    /\ Len(ranking) < Len(players)

\* C30: the engine never deadlocks before Finished: in every reachable
\* AwaitingRoll state a roll is accepted, and in every reachable
\* AwaitingSelection state selectToken(i) is accepted and moves the token for
\* every i in the legal set (the in-function 'Can't leave home' and 'would
\* exceed final square' rejections are never reached for such i).
C30_NoDeadlock ==
    [][/\ (last'.op = "roll" /\ gameState = ROLL) =>
             (last'.ok /\ last'.ret \in Dice)
       /\ \A i \in TokenIndex :
             (/\ last'.op = "select"
              /\ gameState = SELECT
              /\ includes(validTokenIndices, i)
              /\ Select(i)) =>
                 /\ last'.ok
                 /\ ~last'.threw
                 /\ last'.token = i
                 /\ tokenPositions'[currentPiece][i] = destination(i)
                 /\ tokenPositions'[currentPiece][i] # tokenPositions[currentPiece][i]
                 /\ currentBoardStatus'.kind \notin {"CantLeaveHome", "WouldExceed"}
       /\ currentBoardStatus'.kind \notin {"CantLeaveHome", "WouldExceed", "MustRoll"}]_vars

\* C30 witness: a token has just left home on a 6 while another token of
\* its color, on the track, could have been moved instead and a third, in the
\* home stretch, could not use the roll.
C30_Witness ==
    /\ Moved
    /\ last.from = -1
    /\ last.newPos = 0
    /\ \E j \in TokenIndex : tokenPositions[last.color][j] \in 1..50
    /\ \E j \in TokenIndex : tokenPositions[last.color][j] \in 51..55
    /\ gameState = ROLL

\* C31: in every reachable state whose phase is AwaitingRoll or
\* AwaitingSelection the consecutive-six counter is 0, 1 or 2, it is 0
\* immediately after every change of the current color, and it is at least 1
\* whenever the pending roll is 6.
C31_SixCounter ==
    /\ [](gameState \in {ROLL, SELECT} =>
            /\ currentConsecutiveSixes \in 0..2
            /\ currentDiceRoll = 6 => currentConsecutiveSixes >= 1)
    /\ [][currentPiece' # currentPiece => currentConsecutiveSixes' = 0]_vars

\* C31 witness: a third consecutive 6 has just been rolled; the turn went to
\* the next color and the counter is 0 again.
C31_Witness ==
    /\ last.op = "roll"
    /\ last.ok
    /\ last.roll = 6
    /\ currentBoardStatus.kind = "NowTurn"
    /\ tokenPositions[last.color] # [i \in TokenIndex |-> -1]
    /\ \E i \in TokenIndex : canMove(tokenPositions[last.color][i], 6)
    /\ currentPiece # last.color
    /\ currentConsecutiveSixes = 0
    /\ gameState = ROLL

\* tokens of two different active colors stand on the same board cell
SharedCells ==
    {pathCell(ci[1], tokenPositions[ci[1]][ci[2]]) :
        ci \in {di \in Color \X TokenIndex :
                  /\ includes(players, di[1])
                  /\ tokenPositions[di[1]][di[2]] \in 0..56
                  /\ \E ej \in Color \X TokenIndex :
                        /\ ej[1] # di[1]
                        /\ includes(players, ej[1])
                        /\ tokenPositions[ej[1]][ej[2]] \in 0..56
                        /\ pathCell(ej[1], tokenPositions[ej[1]][ej[2]]) =
                              pathCell(di[1], tokenPositions[di[1]][di[2]])}}

\* C32: in every reachable state, tokens of two different colors never stand
\* on the same physical cell unless that cell is a safe-zone cell; therefore
\* all tokens captured by a single move belong to one color, and a capture
\* count above 1 arises only from several same-color tokens stacked on the
\* destination.
C32_OneColorPerCell ==
    /\ [](\A cell \in SharedCells : isSafeZone(players, cell))
    /\ [][(last'.op = "select" /\ last'.ok) =>
            LET sentHome == {ci \in (Color \ {currentPiece}) \X TokenIndex :
                                tokenPositions'[ci[1]][ci[2]] #
                                    tokenPositions[ci[1]][ci[2]]}
            IN  /\ Cardinality(sentHome) = last'.captures
                /\ \A a, b \in sentHome :
                      /\ a[1] = b[1]
                      /\ tokenPositions[a[1]][a[2]] = tokenPositions[b[1]][b[2]]]_vars

\* C32 witness: a move has just sent an opponent token home from a cell that
\* is no safe zone, which the mover now holds alone, while tokens of two
\* colors share a safe-zone cell elsewhere on the board.
C32_Witness ==
    /\ Moved
    /\ last.captures >= 1
    /\ ~isSafeZone(players, pathCell(last.color, last.newPos))
    /\ pathCell(last.color, last.newPos) \notin SharedCells
    /\ SharedCells # {}

\* every token of every active color is at 56
AllHome ==
    \A k \in 1..Len(players) : \A i \in TokenIndex : tokenPositions[players[k]][i] = 56

\* C33: in every reachable state, phase Finished implies that ranking
\* contains every active color exactly once and every token of every active
\* color is at 56; Finished is never entered while some active color still
\* has a token below 56.
C33_FinishedMeansAllHome ==
    /\ [](gameState = FINISHED =>
            /\ \A k \in 1..Len(players) :
                  Cardinality({j \in 1..Len(ranking) : ranking[j] = players[k]}) = 1
            /\ Len(ranking) = Len(players)
            /\ AllHome)
    /\ [][(gameState # FINISHED /\ gameState' = FINISHED) =>
            /\ AllHome'
            /\ last'.op \in {"roll", "select"} /\ last'.ok]_vars

\* C33 witness: the game has just been finished by a roll, made after the
\* last token had reached 56 on a 6; every token is at 56 and the ranking is
\* complete.
C33_Witness ==
    /\ gameState = FINISHED
    /\ last.op = "roll"
    /\ last.ok
    /\ Len(ranking) = Len(players)
    /\ AllHome
    /\ currentBoardStatus.kind = "GameOver"

\* ranking contains every active color
RankingComplete ==
    \A k \in 1..Len(players) : includes(ranking, players[k])

\* C34: once ranking contains every active color, no selectToken call is
\* ever accepted again and at most one further rollDiceForCurrentPiece call is
\* accepted: if the phase is still AwaitingRoll at that point, the very next
\* roll (whatever its value) moves the phase to Finished.
C34_AfterTheLastRank ==
    /\ [](RankingComplete => gameState \in {ROLL, FINISHED})
    /\ [][RankingComplete =>
            /\ last'.op = "select" => ~last'.ok
            /\ last'.op = "roll" =>
                  /\ last'.ok <=> gameState = ROLL
                  /\ last'.ok => gameState' = FINISHED
            /\ last'.op # "reset" =>
                  /\ RankingComplete'
                  /\ gameState = FINISHED => gameState' = FINISHED]_vars

\* C34 witness: with the ranking already complete a 6 was rolled and
\* accepted, and it ended the game.
C34_Witness ==
    /\ RankingComplete
    /\ last.op = "roll"
    /\ last.ok
    /\ last.roll = 6
    /\ gameState = FINISHED
    /\ lastDiceRoll = 6
    /\ currentDiceRoll = Null

\* C35: a successful selectToken(i) by color C changes exactly one of C's
\* token positions, token i, from -1 to 0 or from p to p + roll, leaves C's
\* other three tokens unchanged, and changes an opponent token only by
\* setting it to -1; rollDiceForCurrentPiece never changes any token position
\* or the ranking.
C35_FrameOfAMove ==
    [][/\ (last'.op = "select" /\ last'.ok) =>
            LET i == last'.token
                p == tokenPositions[currentPiece][i]
            IN  /\ i \in TokenIndex
                /\ tokenPositions'[currentPiece][i] # p
                /\ tokenPositions'[currentPiece][i] =
                      IF p = -1 THEN 0 ELSE p + last'.roll
                /\ \A j \in TokenIndex \ {i} :
                      tokenPositions'[currentPiece][j] = tokenPositions[currentPiece][j]
                /\ \A color \in Color \ {currentPiece} : \A j \in TokenIndex :
                      \/ tokenPositions'[color][j] = tokenPositions[color][j]
                      \/ tokenPositions'[color][j] = -1
       /\ last'.op = "roll" => UNCHANGED <<tokenPositions, ranking>>]_vars

\* C35 witness: a move along the track has just sent an opponent token home
\* while the mover's other three tokens, one of them on the track, stayed
\* where they were.
C35_Witness ==
    /\ Moved
    /\ last.from >= 0
    /\ last.newPos = last.from + last.roll
    /\ last.captures = 1
    /\ \E j \in TokenIndex \ {last.token} : tokenPositions[last.color][j] \in 0..55
    /\ tokenPositions[last.color][last.token] = last.newPos

\* the colors outside the active list
Inactive == {color \in Color : ~includes(players, color)}

\* C36: in a 2- or 3-player game the colors outside the active list never
\* become the current color, never appear in ranking, never capture or get
\* captured, and all their token positions stay -1 in every reachable state.
C36_InactiveColorsStayOut ==
    \A color \in Inactive :
        /\ currentPiece # color
        /\ ~includes(ranking, color)
        /\ last.color # color
        /\ \A i \in TokenIndex : tokenPositions[color][i] = -1

\* C36 witness: in a game of three, green has just captured a token on the
\* ring, on a cell that the path of yellow, which is not playing, visits too.
C36_Witness ==
    /\ Len(players) = 3
    /\ Inactive = {"yellow"}
    /\ Moved
    /\ last.color = "green"
    /\ last.captures >= 1
    /\ indicesOn("yellow", pathCell("green", last.newPos)) # {}
    /\ \A i \in TokenIndex : tokenPositions["yellow"][i] = -1

\* C37: turn advance does not skip colors already in ranking: a ranked color
\* still becomes the current color in cyclic order while the game is
\* unfinished, and every roll it makes ends in an auto-pass or a three-six
\* forfeit, never in AwaitingSelection, so a ranked color never moves or
\* captures again.
C37_RankedColorsStillTakeTurns ==
    [][/\ (/\ \/ (last'.op = "roll" /\ last'.ok /\ gameState' # SELECT)
               \/ (last'.op = "select" /\ last'.ok /\ ~last'.threw
                      /\ last'.captures = 0 /\ last'.roll # 6)
            /\ Len(ranking') < Len(players)) =>
            /\ currentPiece' = successor(currentPiece)
            /\ currentBoardStatus' = Status("NowTurn", currentPiece', 0)
            /\ gameState' = ROLL
       /\ (last'.op = "roll" /\ gameState = ROLL /\ includes(ranking, currentPiece)) =>
            /\ last'.ok
            /\ gameState' # SELECT
            /\ currentDiceRoll' = Null
            /\ validTokenIndices' = <<>>
            /\ UNCHANGED <<tokenPositions, ranking>>
            /\ IF Len(ranking) < Len(players)
               THEN /\ currentBoardStatus'.kind = "NowTurn"
                    /\ currentPiece' = successor(currentPiece)
                    /\ currentConsecutiveSixes' = 0
                    /\ gameState' = ROLL
               ELSE gameState' = FINISHED
       /\ (last'.op = "select" /\ last'.ok) => ~includes(ranking, currentPiece)]_vars

\* C37 witness: a color that is in the ranking was given the turn, has just
\* rolled a 6 and passed it on to the next color; the game is not over.
C37_Witness ==
    /\ last.op = "roll"
    /\ last.ok
    /\ last.roll = 6
    /\ includes(ranking, last.color)
    /\ Len(ranking) < Len(players)
    /\ currentPiece = successor(last.color)
    /\ currentPiece # last.color
    /\ gameState = ROLL

====
